---- MODULE Spec2Model ----
(***************************************************************************)
(* Model of the irmin-go REST client (src/irmin/http.go): the command URL  *)
(* builder, the request executor and the operations built on it, and the   *)
(* stream executor with the goroutines it starts.                          *)
(*                                                                         *)
(* A Go string / []byte is a sequence of atoms.  Data that comes from the  *)
(* server or the caller is written one character per atom; the literal     *)
(* words of the program text ("tree", "read", ...) are one atom each and   *)
(* consist of unreserved characters only.                                  *)
(***************************************************************************)
EXTENDS Integers, Sequences, FiniteSets, TLC

\* ------------------------------------------------------------------------
\* Bounds of the model
\* ------------------------------------------------------------------------
MaxStrLen == 1
MaxResults == 2
MaxConns == 2

\* ------------------------------------------------------------------------
\* Text
\* ------------------------------------------------------------------------
Chars == {"o", "k", "%"}

RECURSIVE StrsOfLen(_)
StrsOfLen(n) ==
    IF n = 0 THEN {<<>>}
    ELSE {Append(s, c) : s \in StrsOfLen(n - 1), c \in Chars}

Strs == UNION {StrsOfLen(n) : n \in 0..MaxStrLen}

RECURSIVE Concat(_)
Concat(ss) == IF ss = <<>> THEN <<>> ELSE Head(ss) \o Concat(Tail(ss))

HexDigits == {"0", "1", "2", "3", "4", "5", "6", "7", "8", "9",
              "A", "B", "C", "D", "E", "F", "a", "b", "c", "d", "e", "f"}

\* fmt.Sprintf / fmt.Errorf with string operands: a verb with no operand
\* left prints %!v(MISSING), a trailing % prints %!(NOVERB), %% prints %,
\* operands left over print %!(EXTRA ...).
RECURSIVE Sprintf(_, _)
Sprintf(format, a) ==
    IF format = <<>>
    THEN IF a = <<>> THEN <<>>
         ELSE <<"%", "!", "(EXTRA ">> \o Concat(a) \o <<")">>
    ELSE IF Head(format) # "%"
    THEN <<Head(format)>> \o Sprintf(Tail(format), a)
    ELSE IF Len(format) = 1
    THEN <<"%", "!", "(NOVERB)">>
    ELSE LET verb == format[2]
             rest == SubSeq(format, 3, Len(format))
         IN  IF verb = "%" THEN <<"%">> \o Sprintf(rest, a)
             ELSE IF a = <<>>
             THEN <<"%", "!", verb, "(MISSING)">> \o Sprintf(rest, a)
             ELSE Head(a) \o Sprintf(rest, Tail(a))

\* url.QueryEscape: unreserved characters are kept, a space becomes +,
\* every other byte becomes %XX.
EscapeChar(c) ==
    CASE c = "%" -> <<"%", "2", "5">>
      [] c = "/" -> <<"%", "2", "F">>
      [] c = " " -> <<"+">>
      [] OTHER   -> <<c>>

RECURSIVE QueryEscape(_)
QueryEscape(s) ==
    IF s = <<>> THEN <<>> ELSE EscapeChar(Head(s)) \o QueryEscape(Tail(s))

\* the escape check of url.Parse: every % is followed by two hex digits
RECURSIVE ValidEscapes(_)
ValidEscapes(s) ==
    IF s = <<>> THEN TRUE
    ELSE IF Head(s) # "%" THEN ValidEscapes(Tail(s))
    ELSE /\ Len(s) >= 3
         /\ s[2] \in HexDigits
         /\ s[3] \in HexDigits
         /\ ValidEscapes(SubSeq(s, 4, Len(s)))

UnescapeCode(h1, h2) ==
    CASE <<h1, h2>> = <<"2", "5">> -> "%"
      [] <<h1, h2>> = <<"2", "F">> -> "/"
      [] OTHER -> "?"

RECURSIVE Unescape(_)
Unescape(s) ==
    IF s = <<>> THEN <<>>
    ELSE IF Head(s) # "%" THEN <<Head(s)>> \o Unescape(Tail(s))
    ELSE <<UnescapeCode(s[2], s[3])>> \o Unescape(SubSeq(s, 4, Len(s)))

NoErr == [src |-> "nil", msg |-> <<>>]
Err(src, msg) == [src |-> src, msg |-> msg]

\* url.Parse of a path-only reference
UrlParse(s) ==
    IF ValidEscapes(s)
    THEN [err |-> NoErr, url |-> [host |-> <<>>, path |-> Unescape(s), raw |-> s]]
    ELSE [err |-> Err("url", <<"invalid URL escape">>),
          url |-> [host |-> <<>>, path |-> <<>>, raw |-> <<>>]]

\* (*url.URL).ResolveReference for a reference with an absolute path
ResolveReference(base, ref) ==
    [host |-> base.host, path |-> ref.path, raw |-> ref.raw]

\* (*url.URL).String
UrlString(u) == u.host \o u.raw


\* ------------------------------------------------------------------------
\* Data model
\* ------------------------------------------------------------------------
\* SubCommandType (iota); 3 stands for a value outside the enumeration
COMMAND_PLAIN == 0
COMMAND_TREE == 1
COMMAND_TAG == 2
SubCommandTypes == 0..3

MaxPathLen == 2
Segments == {<<"k">>, <<"o", "%">>}
Paths == UNION {[1..n -> Segments] : n \in 0..MaxPathLen}
OpPaths == {<<>>, << <<"k">> >>}

Foo == <<"f", "o", "o">>
TreeNames == {<<>>, Foo}
Owners == {<<"o">>, <<"k">>}
CommandNames == {<<>>, <<"read">>, <<"o", "%">>}
CloneNames == {<<"k">>, <<"o", "%">>}
Messages == {<<"k">>}
Dates == {<<"1">>}

BaseHost == <<"http://127.0.0.1:8080">>
BaseUri == [host |-> BaseHost, path |-> <<>>, raw |-> <<>>]
NilUrl == [host |-> <<>>, path |-> <<>>, raw |-> <<>>]

\* IrminString.String(): the bytes as a string
IrminStringString(b) == [i \in 1..Len(b) |-> b[i]]

\* IrminPath.URL().String(): every segment escaped on its own, each after a /
RECURSIVE PathURL(_)
PathURL(path) ==
    IF path = <<>> THEN <<>>
    ELSE <<"/">> \o QueryEscape(Head(path)) \o PathURL(Tail(path))

\* IrminPath.String(): the readable full path
RECURSIVE PathString(_)
PathString(path) ==
    IF path = <<>> THEN <<>>
    ELSE <<"/">> \o Head(path) \o PathString(Tail(path))

\* ParseEncodedPath on an escaped name without separators: one segment
ParseEncodedPath(s) ==
    IF ValidEscapes(s)
    THEN [err |-> NoErr, path |-> IF s = <<>> THEN <<>> ELSE <<Unescape(s)>>]
    ELSE [err |-> Err("path", <<"invalid escape">>), path |-> <<>>]

\* ------------------------------------------------------------------------
\* Connection
\* ------------------------------------------------------------------------
Create(uri, taskowner) == [base_uri |-> uri, tree |-> <<>>, taskowner |-> taskowner]

Tree(rest) == rest.tree

TaskOwner(rest) == rest.taskowner

NewTaskValue(rest, date, message) ==
    [Date |-> date, Uid |-> <<"0">>, Owner |-> rest.taskowner, Messages |-> <<message>>]

\* ------------------------------------------------------------------------
\* Command URL builder
\* ------------------------------------------------------------------------
\* mutation: the tree sub-command is used even when no tree is set
ParentCommand_AlwaysTree(rest, ct) ==
    CASE ct = COMMAND_TREE -> <<"tree">>
      [] ct = COMMAND_TAG -> <<"tag">>
      [] OTHER -> <<>>

\* the switch of MakeCallUrl: the parent command of the call
ParentCommand(rest, ct) ==
    CASE ct = COMMAND_TREE /\ Tree(rest) # <<>> -> <<"tree">>
      [] ct = COMMAND_TAG -> <<"tag">>
      [] OTHER -> <<>>

ParentParam(rest, ct) ==
    IF ct = COMMAND_TREE /\ Tree(rest) # <<>> THEN Tree(rest) ELSE <<>>

PlainFormat == <<"/", "%", "s", "%", "s">>
ParentFormat == <<"/", "%", "s", "/", "%", "s", "/", "%", "s", "/", "%", "s", "%", "s">>

\* the text handed to url.Parse
CallSuffix(rest, ct, command, path) ==
    LET p == PathURL(path)
        parent_command == ParentCommand(rest, ct)
        parent_param == ParentParam(rest, ct)
    IN  IF parent_command = <<>>
        THEN Sprintf(PlainFormat, <<QueryEscape(command), p>>)
        ELSE Sprintf(ParentFormat, <<QueryEscape(parent_command),
                                     QueryEscape(parent_param),
                                     QueryEscape(command), p>>)

IntText(n) == CASE n = 0 -> <<"0">> [] n = 1 -> <<"1">> [] n = 2 -> <<"2">> [] OTHER -> <<"3">>

MakeCallUrl(rest, ct, command, path) ==
    LET parsed == UrlParse(CallSuffix(rest, ct, command, path))
    IN  IF ct \notin {COMMAND_PLAIN, COMMAND_TREE, COMMAND_TAG}
        THEN [err |-> Err("errorf", Sprintf(<<"unknown command type ", "%", "d">>,
                                            <<IntText(ct)>>)),
              url |-> NilUrl]
        ELSE IF parsed.err # NoErr
        THEN [err |-> parsed.err, url |-> NilUrl]
        ELSE [err |-> NoErr, url |-> ResolveReference(rest.base_uri, parsed.url)]

\* ------------------------------------------------------------------------
\* What the network and the server answer to one request
\* ------------------------------------------------------------------------
TransportErrs == {<<"connection refused">>, <<"timeout">>}
ResultStrs == {<<>>, <<"k">>, <<"o", "k">>, <<"o", "k", "k">>}
Values == {<<>>, <<"o", "k">>}
Versions == {<<>>, <<"k">>}

ArraysOf(S) == UNION {[1..n -> S] : n \in 0..MaxResults}

StringReplies == [Result : ResultStrs, Error : Strs, Version : {<<>>}]
StringArrayReplies == [Result : ArraysOf(Values), Error : Strs, Version : {<<>>}]
VersionReplies == [Result : {<<>>}, Error : Strs, Version : Versions]
PathArrayReplies == [Result : ArraysOf(OpPaths), Error : Strs, Version : {<<>>}]
BoolReplies == [Result : BOOLEAN, Error : Strs, Version : {<<>>}]

ZeroString == [Result |-> <<>>, Error |-> <<>>, Version |-> <<>>]
ZeroBool == [Result |-> FALSE, Error |-> <<>>, Version |-> <<>>]

\* a transport failure, a failure while reading the body, a body that is not
\* JSON of the expected shape, or a decoded envelope
NetAnswers(replies, zero) ==
    {[kind |-> "transport_error", terr |-> e, data |-> zero] : e \in TransportErrs}
    \cup {[kind |-> k, terr |-> <<>>, data |-> zero] : k \in {"read_error", "undecodable"}}
    \cup {[kind |-> "reply", terr |-> <<>>, data |-> d] : d \in replies}


\* ------------------------------------------------------------------------
\* Request executor
\* ------------------------------------------------------------------------
Returned(err, val) == [status |-> "returned", err |-> err, val |-> val]
Panicked(val) == [status |-> "panic", err |-> Err("panic", <<"nil pointer dereference">>), val |-> val]

\* the value of runCommand's err at line 192.  http.Get assigns it; in the
\* else branch "j, err := json.Marshal(post)" declares a second err, local to
\* that block, and http.Post assigns that one: the function's err keeps the
\* nil it got from MakeCallUrl.
RequestErr(hasPost, net) ==
    IF ~hasPost /\ net.kind = "transport_error"
    THEN Err("transport", net.terr)
    ELSE NoErr

\* runCommand: status, returned error, and the value decoded into v
runCommand(rest, ct, command, path, hasPost, net, zero) ==
    LET u == MakeCallUrl(rest, ct, command, path)
    IN  IF u.err # NoErr THEN Returned(u.err, zero)
        ELSE IF RequestErr(hasPost, net) # NoErr
        THEN Returned(RequestErr(hasPost, net), zero)
        ELSE IF net.kind = "transport_error"
        THEN Panicked(zero)                       \* res is nil at res.Body
        ELSE IF net.kind = "read_error"
        THEN Returned(Err("read", <<"read failed">>), zero)
        ELSE IF net.kind = "undecodable"
        THEN Returned(Err("json", <<"cannot unmarshal">>), zero)
        ELSE Returned(NoErr, net.data)

\* ------------------------------------------------------------------------
\* Operations of the connection
\* ------------------------------------------------------------------------
\* "if data.Error.String() != "" { return ..., fmt.Errorf(data.Error.String()) }"
RemoteError(data) ==
    IF IrminStringString(data.Error) # <<>>
    THEN Err("errorf", Sprintf(IrminStringString(data.Error), <<>>))
    ELSE NoErr

AvailableCommandsOp(rest, net) ==
    LET r == runCommand(rest, COMMAND_TREE, <<>>, <<>>, FALSE, net, ZeroString)
    IN  IF r.status = "panic" THEN Panicked(<<>>)
        ELSE IF r.err # NoErr THEN Returned(r.err, <<>>)
        ELSE IF RemoteError(r.val) # NoErr THEN Returned(RemoteError(r.val), <<>>)
        ELSE Returned(NoErr, [i \in 1..Len(r.val.Result) |->
                                  IrminStringString(r.val.Result[i])])

VersionOp(rest, net) ==
    LET r == runCommand(rest, COMMAND_TREE, <<>>, <<>>, FALSE, net, ZeroString)
    IN  IF r.status = "panic" THEN Panicked(<<>>)
        ELSE IF r.err # NoErr THEN Returned(r.err, <<>>)
        ELSE IF RemoteError(r.val) # NoErr THEN Returned(RemoteError(r.val), <<>>)
        ELSE Returned(NoErr, IrminStringString(r.val.Version))

ListOp(rest, path, net) ==
    LET r == runCommand(rest, COMMAND_TREE, <<"list">>, path, FALSE, net, ZeroString)
    IN  IF r.status = "panic" THEN Panicked(<<>>)
        ELSE IF r.err # NoErr THEN Returned(r.err, <<>>)
        ELSE IF RemoteError(r.val) # NoErr THEN Returned(RemoteError(r.val), <<>>)
        ELSE Returned(NoErr, r.val.Result)

MemOp(rest, path, net) ==
    LET r == runCommand(rest, COMMAND_TREE, <<"mem">>, path, FALSE, net, ZeroBool)
    IN  IF r.status = "panic" THEN Panicked(FALSE)
        ELSE IF r.err # NoErr THEN Returned(r.err, FALSE)
        ELSE IF RemoteError(r.val) # NoErr THEN Returned(RemoteError(r.val), FALSE)
        ELSE Returned(NoErr, r.val.Result)

\* mutation: of several results Read returns the first
ReadOp_FirstOfMany(rest, path, net) ==
    LET r == runCommand(rest, COMMAND_TREE, <<"read">>, path, FALSE, net, ZeroString)
    IN  IF r.status = "panic" THEN Panicked(<<>>)
        ELSE IF r.err # NoErr THEN Returned(r.err, <<>>)
        ELSE IF RemoteError(r.val) # NoErr THEN Returned(RemoteError(r.val), <<>>)
        ELSE IF Len(r.val.Result) >= 1
        THEN Returned(NoErr, r.val.Result[1])
        ELSE Returned(Err("errorf", Sprintf(<<"invalid key ", "%", "s">>,
                                            <<PathString(path)>>)), <<>>)

ReadOp(rest, path, net) ==
    LET r == runCommand(rest, COMMAND_TREE, <<"read">>, path, FALSE, net, ZeroString)
    IN  IF r.status = "panic" THEN Panicked(<<>>)
        ELSE IF r.err # NoErr THEN Returned(r.err, <<>>)
        ELSE IF RemoteError(r.val) # NoErr THEN Returned(RemoteError(r.val), <<>>)
        ELSE IF Len(r.val.Result) > 1
        THEN Returned(Err("errorf",
                 Sprintf(<<"read ", "%", "s", " returned more than one result">>,
                         <<PathString(path)>>)), <<>>)
        ELSE IF Len(r.val.Result) = 1
        THEN Returned(NoErr, r.val.Result[1])
        ELSE Returned(Err("errorf", Sprintf(<<"invalid key ", "%", "s">>,
                                            <<PathString(path)>>)), <<>>)

\* mutation: Update accepts a reply without a hash
UpdateOp_EmptyHashAccepted(rest, path, net) ==
    LET r == runCommand(rest, COMMAND_TREE, <<"update">>, path, TRUE, net, ZeroString)
    IN  IF r.status = "panic" THEN Panicked(<<>>)
        ELSE IF r.err # NoErr THEN Returned(r.err, IrminStringString(r.val.Result))
        ELSE IF RemoteError(r.val) # NoErr THEN Returned(RemoteError(r.val), <<>>)
        ELSE Returned(NoErr, IrminStringString(r.val.Result))

UpdateOp(rest, path, net) ==
    LET r == runCommand(rest, COMMAND_TREE, <<"update">>, path, TRUE, net, ZeroString)
    IN  IF r.status = "panic" THEN Panicked(<<>>)
        ELSE IF r.err # NoErr THEN Returned(r.err, IrminStringString(r.val.Result))
        ELSE IF RemoteError(r.val) # NoErr THEN Returned(RemoteError(r.val), <<>>)
        ELSE IF IrminStringString(r.val.Result) = <<>>
        THEN Returned(Err("errorf",
                 Sprintf(<<"update seemed to succeed, but didn't return a hash">>,
                         <<PathString(path), IrminStringString(r.val.Result)>>)), <<>>)
        ELSE Returned(NoErr, IrminStringString(r.val.Result))

CompareAndSetOp(rest, path, net) ==
    LET r == runCommand(rest, COMMAND_TREE, <<"compare-and-set">>, path, TRUE, net,
                        ZeroString)
    IN  IF r.status = "panic" THEN Panicked(<<>>)
        ELSE IF r.err # NoErr THEN Returned(r.err, IrminStringString(r.val.Result))
        ELSE IF RemoteError(r.val) # NoErr THEN Returned(RemoteError(r.val), <<>>)
        ELSE IF IrminStringString(r.val.Result) = <<>>
        THEN Returned(Err("errorf",
                 Sprintf(<<"compare-and-set seemed to succeed, but didn't return a hash">>,
                         <<PathString(path), IrminStringString(r.val.Result)>>)), <<>>)
        ELSE Returned(NoErr, IrminStringString(r.val.Result))

\* Remove and RemoveRec differ in the command name only
RemoveCommandOp(rest, command, path, net) ==
    LET r == runCommand(rest, COMMAND_TREE, command, path, TRUE, net, ZeroString)
    IN  IF r.status = "panic" THEN Panicked(<<>>)
        ELSE IF r.err # NoErr THEN Returned(r.err, <<>>)
        ELSE IF RemoteError(r.val) # NoErr THEN Returned(RemoteError(r.val), <<>>)
        ELSE IF Len(r.val.Result) > 1
        THEN Returned(Err("errorf",
                 Sprintf(<<"remove ", "%", "s", " returned more than one result">>,
                         <<PathString(path)>>)), <<>>)
        ELSE Returned(NoErr, <<>>)

RemoveOp(rest, path, net) == RemoveCommandOp(rest, <<"remove">>, path, net)

RemoveRecOp(rest, path, net) == RemoveCommandOp(rest, <<"remove-rec">>, path, net)

CloneOp(rest, name, force, net) ==
    LET parsed == ParseEncodedPath(QueryEscape(name))
        command == IF force THEN <<"clone-force">> ELSE <<"clone">>
        r == runCommand(rest, COMMAND_TREE, command, parsed.path, FALSE, net, ZeroString)
    IN  IF parsed.err # NoErr THEN Returned(parsed.err, <<>>)
        ELSE IF r.status = "panic" THEN Panicked(<<>>)
        ELSE IF r.err # NoErr THEN Returned(r.err, <<>>)
        ELSE IF RemoteError(r.val) # NoErr THEN Returned(RemoteError(r.val), <<>>)
        ELSE IF Len(r.val.Result) > 1
        THEN Returned(Err("errorf",
                 Sprintf(<<"%", "s", " ", "%", "s", " returned more than one result">>,
                         <<command, name>>)), <<>>)
        ELSE IF \/ IrminStringString(r.val.Result) # <<"o", "k">>
                \/ (IrminStringString(r.val.Result) = <<>> /\ force)
        THEN Returned(Err("errorf", Sprintf(IrminStringString(r.val.Result), <<>>)), <<>>)
        ELSE Returned(NoErr, <<>>)


\* ------------------------------------------------------------------------
\* Stream executor: the response body as the decoder reads it
\* ------------------------------------------------------------------------
\* capacity of the channel made by runStreamCommand and of the one made by Iter
ChanCap == 100
OutCap == 1

\* the longest body: ChanCap + MaxExtra array elements after the version
MaxExtra == 4
MaxElems == ChanCap + MaxExtra
\* ch and out full, one reply held by each goroutine, and one more
LongBody == ChanCap + OutCap + 2
\* a short body has at most MaxShort elements
MaxShort == 3
\* only the first MaxOddPos elements may break the pattern
\* frame ... frame, end token, closing bracket
MaxOddPos == 2
\* a body that breaks the pattern has at most MaxOddLen elements
MaxOddLen == 4

\* the raw JSON of a frame's result: the id tells the frames apart, isPath
\* says whether json.Unmarshal into an IrminPath accepts it
NoPayload == [id |-> 0, isPath |-> FALSE]
Payload(k, isPath) == [id |-> k, isPath |-> isPath]

\* one JSON value of the array, or what the decoder meets instead of one:
\* text that is not JSON, the closing bracket, or the end of the body
Obj(result, stream) == [kind |-> "obj", result |-> result, stream |-> stream]
Garbage == [kind |-> "garbage", result |-> NoPayload, stream |-> "absent"]
CloseBracket == [kind |-> "close", result |-> NoPayload, stream |-> "absent"]
EndOfBody == [kind |-> "eof", result |-> NoPayload, stream |-> "absent"]
StartTok == Obj(NoPayload, "start")
EndTok == Obj(NoPayload, "end")
PlainObj == Obj(NoPayload, "absent")
Frame(k, isPath) == Obj(Payload(k, isPath), "absent")

Terminators == {Garbage, CloseBracket, EndOfBody}

EmptyResult(e) == e.kind = "obj" /\ e.result = NoPayload

\* element j of s breaks the pattern: a payload that is no path, an object
\* with neither result nor end token, or a frame right after an empty result
OddAt(s, j) ==
    \/ s[j] = PlainObj
    \/ (s[j].kind = "obj" /\ s[j].result # NoPayload /\ ~s[j].result.isPath)
    \/ (j > 1 /\ EmptyResult(s[j - 1]) /\ s[j].kind = "obj" /\ s[j].result # NoPayload)

HasOdd(s) == \E j \in 1..Len(s) : j <= MaxOddPos /\ OddAt(s, j)

\* what the body can hold after the elements s.  The body ends (end token,
\* closing bracket, end of input, undecodable text) after at most MaxShort
\* elements or after at least LongBody elements: a short stream, or one with
\* more frames than the two channels and the two goroutines can hold.
NextElems(s) ==
    LET n == Len(s)
        afterEmpty == n > 0 /\ EmptyResult(s[n])
        limit == IF HasOdd(s) THEN MaxOddLen ELSE MaxElems
        mayEnd == n <= MaxShort \/ n >= LongBody \/ afterEmpty
    IN  (IF mayEnd THEN Terminators ELSE {})
        \cup (IF mayEnd /\ n < limit /\ ~afterEmpty THEN {EndTok} ELSE {})
        \cup (IF n < limit /\ ~afterEmpty THEN {Frame(n + 1, TRUE)} ELSE {})
        \cup (IF n < limit /\ n < MaxOddPos
              THEN {EndTok, Frame(n + 1, TRUE), Frame(n + 1, FALSE), PlainObj}
              ELSE {})

\* the first element of the array as the header check can meet it
HeaderElems == Terminators \cup {StartTok, EndTok, PlainObj}
VersionElems == Terminators \cup {PlainObj}

\* dec.Decode(&v) fails on anything that is not a JSON value
DecodeFails(e) == e.kind # "obj"

\* dec.Decode(&stream_token): a stream field overwrites Stream, an object
\* without one leaves the old value
DecodeToken(old, e) == IF e.stream = "absent" THEN old ELSE e.stream

\* json.Unmarshal(m.Result, &p) in Iter
UnmarshalPath(result) ==
    IF result.isPath THEN [err |-> NoErr, path |-> result.id]
    ELSE [err |-> Err("json", <<"cannot unmarshal">>), path |-> 0]


\* ------------------------------------------------------------------------
\* State
\* ------------------------------------------------------------------------
VARIABLES
    conns,          \* the RestConn objects, by reference (index)
    call,           \* the last call on a connection: arguments, answer, outcome
    mainPc,         \* the caller of Iter: where it is
    iterRet,        \* what Iter returned: a sequence or not, and the error
    errVar,         \* the result variable err of runStreamCommand
    hasBody,        \* an HTTP response has been obtained
    wg,             \* counter of the WaitGroup of runStreamCommand
    closerPc,       \* the goroutine that waits on wg and closes the body
    bodyCloses,     \* number of res.Body.Close() calls
    strReturned,    \* runStreamCommand has returned
    header,         \* the array elements read by the header check
    sent,           \* the array elements read by the decode loop so far
    streamToken,    \* stream_token.Stream
    decPc,          \* the decode goroutine
    decS,           \* the StreamReply it holds
    ch,             \* channel of runStreamCommand
    chCloses,       \* number of close(ch)
    itPc,           \* the goroutine of Iter
    itP,            \* the path it holds
    out,            \* channel of Iter
    outCloses,      \* number of close(out)
    received,       \* what the consumer has received from out
    crashed,        \* a goroutine panicked: the process is gone
    readAfterClose  \* the decoder read the body after it was closed

cmdVars == <<conns, call>>
streamVars == <<mainPc, iterRet, errVar, hasBody, wg, closerPc, bodyCloses, strReturned,
                header, sent, streamToken, decPc, decS, ch, chCloses, itPc, itP, out,
                outCloses, received, crashed, readAfterClose>>
vars == <<conns, call, mainPc, iterRet, errVar, hasBody, wg, closerPc, bodyCloses,
          strReturned, header, sent, streamToken, decPc, decS, ch, chCloses, itPc,
          itP, out, outCloses, received, crashed, readAfterClose>>

NoNet == [kind |-> "none", terr |-> <<>>, data |-> ZeroString]
NoCall == [op |-> "none", conn |-> 0, ct |-> COMMAND_PLAIN, command |-> <<>>,
           path |-> <<>>, name |-> <<>>, force |-> FALSE, net |-> NoNet,
           out |-> Returned(NoErr, <<>>)]
Call(op, i, ct, command, path, name, force, net, o) ==
    [op |-> op, conn |-> i, ct |-> ct, command |-> command, path |-> path,
     name |-> name, force |-> force, net |-> net, out |-> o]

NoReply == [Error |-> <<>>, Result |-> NoPayload]

StreamIdle ==
    /\ mainPc = "start"
    /\ iterRet = [seq |-> FALSE, err |-> NoErr]
    /\ errVar = NoErr
    /\ hasBody = FALSE
    /\ wg = 0
    /\ closerPc = "none"
    /\ bodyCloses = 0
    /\ strReturned = FALSE
    /\ header = <<>>
    /\ sent = <<>>
    /\ streamToken = "empty"
    /\ decPc = "none"
    /\ decS = NoReply
    /\ ch = <<>>
    /\ chCloses = 0
    /\ itPc = "none"
    /\ itP = 0
    /\ out = <<>>
    /\ outCloses = 0
    /\ received = <<>>
    /\ crashed = FALSE
    /\ readAfterClose = FALSE

\* r := irmin.Create(uri, owner)
Init ==
    /\ \E o \in Owners : conns = <<Create(BaseUri, o)>>
    /\ call = NoCall
    /\ StreamIdle

\* ------------------------------------------------------------------------
\* Actions: the connection and the non-streaming operations
\* ------------------------------------------------------------------------
\* No operation reads the outcome of an earlier call and a request changes
\* no connection, so what can follow a request is what can follow the state
\* before it.  Runs are explored up to their first request, which the caller
\* issues at the start or on the connection it has just made a task with.
ConnOps == {"none", "FromTree", "SetTaskOwner", "NewTask"}
CallerReady(i) == call.op = "none" \/ (call.op = "NewTask" /\ call.conn = i)

\* mutation: FromTree sets the tree of the receiver as well
FromTree_InPlace(i, t) ==
    /\ call.op \in ConnOps
    /\ Len(conns) < MaxConns
    /\ conns' = Append([conns EXCEPT ![i].tree = t], [conns[i] EXCEPT !.tree = t])
    /\ call' = Call("FromTree", i, COMMAND_PLAIN, <<>>, <<>>, t, FALSE, NoNet,
                    Returned(NoErr, Len(conns) + 1))
    /\ UNCHANGED streamVars

FromTree(i, t) ==
    /\ call.op \in ConnOps
    /\ Len(conns) < MaxConns
    /\ conns' = Append(conns, [conns[i] EXCEPT !.tree = t])
    /\ call' = Call("FromTree", i, COMMAND_PLAIN, <<>>, <<>>, t, FALSE, NoNet,
                    Returned(NoErr, Len(conns) + 1))
    /\ UNCHANGED streamVars

SetTaskOwner(i, owner) ==
    /\ call.op \in ConnOps
    /\ conns' = [conns EXCEPT ![i].taskowner = owner]
    /\ call' = Call("SetTaskOwner", i, COMMAND_PLAIN, <<>>, <<>>, owner, FALSE, NoNet,
                    Returned(NoErr, <<>>))
    /\ UNCHANGED streamVars

NewTask(i, date, message) ==
    /\ call.op \in ConnOps
    /\ call' = Call("NewTask", i, COMMAND_PLAIN, <<>>, <<>>, message, FALSE, NoNet,
                    Returned(NoErr, NewTaskValue(conns[i], date, message)))
    /\ UNCHANGED <<conns, streamVars>>

CallMakeCallUrl(i, ct, command, path) ==
    /\ CallerReady(i)
    /\ call' = Call("MakeCallUrl", i, ct, command, path, <<>>, FALSE, NoNet,
                    LET u == MakeCallUrl(conns[i], ct, command, path)
                    IN  Returned(u.err, u.url))
    /\ UNCHANGED <<conns, streamVars>>

AvailableCommands(i, net) ==
    /\ CallerReady(i)
    /\ call' = Call("AvailableCommands", i, COMMAND_TREE, <<>>, <<>>, <<>>, FALSE, net,
                    AvailableCommandsOp(conns[i], net))
    /\ UNCHANGED <<conns, streamVars>>

Version(i, net) ==
    /\ CallerReady(i)
    /\ call' = Call("Version", i, COMMAND_TREE, <<>>, <<>>, <<>>, FALSE, net,
                    VersionOp(conns[i], net))
    /\ UNCHANGED <<conns, streamVars>>

List(i, path, net) ==
    /\ CallerReady(i)
    /\ call' = Call("List", i, COMMAND_TREE, <<"list">>, path, <<>>, FALSE, net,
                    ListOp(conns[i], path, net))
    /\ UNCHANGED <<conns, streamVars>>

Mem(i, path, net) ==
    /\ CallerReady(i)
    /\ call' = Call("Mem", i, COMMAND_TREE, <<"mem">>, path, <<>>, FALSE, net,
                    MemOp(conns[i], path, net))
    /\ UNCHANGED <<conns, streamVars>>

Read(i, path, net) ==
    /\ CallerReady(i)
    /\ call' = Call("Read", i, COMMAND_TREE, <<"read">>, path, <<>>, FALSE, net,
                    ReadOp(conns[i], path, net))
    /\ UNCHANGED <<conns, streamVars>>

Update(i, path, net) ==
    /\ CallerReady(i)
    /\ call' = Call("Update", i, COMMAND_TREE, <<"update">>, path, <<>>, FALSE, net,
                    UpdateOp(conns[i], path, net))
    /\ UNCHANGED <<conns, streamVars>>

Remove(i, path, net) ==
    /\ CallerReady(i)
    /\ call' = Call("Remove", i, COMMAND_TREE, <<"remove">>, path, <<>>, FALSE, net,
                    RemoveOp(conns[i], path, net))
    /\ UNCHANGED <<conns, streamVars>>

RemoveRec(i, path, net) ==
    /\ CallerReady(i)
    /\ call' = Call("RemoveRec", i, COMMAND_TREE, <<"remove-rec">>, path, <<>>, FALSE, net,
                    RemoveRecOp(conns[i], path, net))
    /\ UNCHANGED <<conns, streamVars>>

Clone(i, name, force, net) ==
    /\ CallerReady(i)
    /\ call' = Call("Clone", i, COMMAND_TREE,
                    IF force THEN <<"clone-force">> ELSE <<"clone">>,
                    ParseEncodedPath(QueryEscape(name)).path, name, force,
                    net, CloneOp(conns[i], name, force, net))
    /\ UNCHANGED <<conns, streamVars>>

CompareAndSet(i, path, net) ==
    /\ CallerReady(i)
    /\ call' = Call("CompareAndSet", i, COMMAND_TREE, <<"compare-and-set">>, path, <<>>,
                    FALSE, net, CompareAndSetOp(conns[i], path, net))
    /\ UNCHANGED <<conns, streamVars>>

ConnRefs == 1..Len(conns)
StringAnswers == NetAnswers(StringReplies, ZeroString)
StringArrayAnswers == NetAnswers(StringArrayReplies, ZeroString)
VersionAnswers == NetAnswers(VersionReplies, ZeroString)
PathArrayAnswers == NetAnswers(PathArrayReplies, ZeroString)
BoolAnswers == NetAnswers(BoolReplies, ZeroBool)

Next ==
    \/ \E i \in ConnRefs, t \in TreeNames : FromTree(i, t)
    \/ \E i \in ConnRefs, o \in Owners : SetTaskOwner(i, o)
    \/ \E i \in ConnRefs, d \in Dates, m \in Messages : NewTask(i, d, m)
    \/ \E i \in ConnRefs : CallerReady(i) /\
           \E ct \in SubCommandTypes, c \in CommandNames, p \in Paths :
               CallMakeCallUrl(i, ct, c, p)
    \/ \E i \in ConnRefs : CallerReady(i) /\
           \E net \in StringArrayAnswers : AvailableCommands(i, net)
    \/ \E i \in ConnRefs : CallerReady(i) /\
           \E net \in VersionAnswers : Version(i, net)
    \/ \E i \in ConnRefs : CallerReady(i) /\
           \E p \in OpPaths, net \in PathArrayAnswers : List(i, p, net)
    \/ \E i \in ConnRefs : CallerReady(i) /\
           \E p \in OpPaths, net \in BoolAnswers : Mem(i, p, net)
    \/ \E i \in ConnRefs : CallerReady(i) /\
           \E p \in OpPaths, net \in StringArrayAnswers : Read(i, p, net)
    \/ \E i \in ConnRefs : CallerReady(i) /\
           \E p \in OpPaths, net \in StringAnswers : Update(i, p, net)
    \/ \E i \in ConnRefs : CallerReady(i) /\
           \E p \in OpPaths, net \in StringAnswers : Remove(i, p, net)
    \/ \E i \in ConnRefs : CallerReady(i) /\
           \E p \in OpPaths, net \in StringAnswers : RemoveRec(i, p, net)
    \/ \E i \in ConnRefs : CallerReady(i) /\
           \E n \in CloneNames, f \in BOOLEAN, net \in StringAnswers :
               Clone(i, n, f, net)
    \/ \E i \in ConnRefs : CallerReady(i) /\
           \E p \in OpPaths, net \in StringAnswers : CompareAndSet(i, p, net)

Spec == Init /\ [][Next]_vars


\* ------------------------------------------------------------------------
\* Actions: Iter, runStreamCommand and their goroutines
\* ------------------------------------------------------------------------
StreamAnswers ==
    {[kind |-> "transport_error", terr |-> e, data |-> ZeroString] : e \in TransportErrs}
    \cup {[kind |-> "reply", terr |-> <<>>, data |-> ZeroString]}

\* mutation: the decode goroutine is not registered with the WaitGroup
WgAddDecoder_Missing(n) == n

\* wg.Add(1) before the decode goroutine is started
WgAddDecoder(n) == n + 1

\* mutation: the decode goroutine ends without wg.Done()
DecoderDone_Missing(n) == n

\* "defer wg.Done()" of the decode goroutine
DecoderDone(n) == n - 1

\* mutation: the send never waits for room in the channel
ChanHasRoom_Unbounded(c) == TRUE

\* "ch <- s" can proceed: the channel of capacity ChanCap is not full
ChanHasRoom(c) == Len(c) < ChanCap

\* the header check "err != nil || !bytes.Equal(stream_token.Stream, "start")"
StartAccepted(err, token) == ~(err # NoErr \/ token # "start")

DecodeErr(e) == IF DecodeFails(e) THEN Err("json", <<"cannot decode">>) ELSE NoErr

\* runStreamCommand up to its return statement, as called by Iter (no POST
\* body), and, when it returns no channel, the return of Iter as well.
\* bracket: dec.Token() finds a token; e1, e2: the next two things in the body.
\* The deferred wg.Done() of a successful call is the action StreamReturn.
IterCall(i, net, bracket, e1, e2) ==
    LET u == MakeCallUrl(conns[i], COMMAND_TREE, <<"iter">>, <<>>)
        reqErr == RequestErr(FALSE, net)
        token == DecodeToken("empty", e1)
        \* the error and whether a channel is returned; the body elements read
        failEarly(err) ==
            /\ iterRet' = [seq |-> FALSE, err |-> err]
            /\ errVar' = err
            /\ mainPc' = "noSeq"
            /\ strReturned' = TRUE
            /\ UNCHANGED <<hasBody, wg, closerPc, header, streamToken, decPc>>
        failHeader(err, read, tok) ==
            /\ iterRet' = [seq |-> FALSE, err |-> err]
            /\ errVar' = err
            /\ mainPc' = "noSeq"
            /\ strReturned' = TRUE
            /\ hasBody' = TRUE
            /\ wg' = 0                      \* wg.Add(1) ... deferred wg.Done()
            /\ closerPc' = "waiting"
            /\ header' = read
            /\ streamToken' = tok
            /\ UNCHANGED decPc
    IN  /\ mainPc = "start"
        /\ call' = Call("Iter", i, COMMAND_TREE, <<"iter">>, <<>>, <<>>, FALSE, net,
                        Returned(NoErr, <<>>))
        /\ IF u.err # NoErr THEN failEarly(u.err)
           ELSE IF reqErr # NoErr THEN failEarly(reqErr)
           ELSE IF ~bracket
           THEN failHeader(Err("json", <<"cannot decode">>), <<>>, "empty")
           ELSE IF ~StartAccepted(DecodeErr(e1), token)
           THEN failHeader(DecodeErr(e1), <<e1>>, token)
           ELSE IF DecodeFails(e2)
           THEN failHeader(DecodeErr(e2), <<e1, e2>>, token)
           ELSE /\ hasBody' = TRUE
                /\ closerPc' = "waiting"
                /\ wg' = WgAddDecoder(1)
                /\ decPc' = "loop"
                /\ header' = <<e1, e2>>
                /\ streamToken' = token
                /\ mainPc' = "inStream"
                /\ errVar' = NoErr
                /\ UNCHANGED <<iterRet, strReturned>>
        /\ UNCHANGED <<conns, bodyCloses, sent, decS, ch, chCloses, itPc, itP, out,
                       outCloses, received, crashed, readAfterClose>>

\* "return ch, nil" of runStreamCommand: the store of nil into err and the
\* deferred wg.Done()
StreamReturn ==
    /\ mainPc = "inStream"
    /\ ~crashed
    /\ errVar' = NoErr
    /\ wg' = wg - 1
    /\ strReturned' = TRUE
    /\ mainPc' = "inIter"
    /\ UNCHANGED <<cmdVars, header, iterRet, hasBody, closerPc, bodyCloses, sent,
                   streamToken, decPc, decS, ch, chCloses, itPc, itP, out, outCloses,
                   received, crashed, readAfterClose>>

\* The caller gets the results of runStreamCommand, and the rest of Iter
\* runs.  err is shared with the decode goroutine, which assigns it without
\* synchronisation: the caller gets the nil of the return statement or what
\* the goroutine has assigned since.  With an error Iter returns no sequence;
\* otherwise it makes out, starts its goroutine and returns out.
IterReturn ==
    /\ mainPc = "inIter"
    /\ ~crashed
    /\ \E err \in {NoErr, errVar} :
          IF err # NoErr
          THEN /\ iterRet' = [seq |-> FALSE, err |-> err]
               /\ mainPc' = "noSeq"
               /\ UNCHANGED itPc
          ELSE /\ iterRet' = [seq |-> TRUE, err |-> NoErr]
               /\ mainPc' = "consume"
               /\ itPc' = "recv"
    /\ UNCHANGED <<cmdVars, header, errVar, hasBody, wg, closerPc, bodyCloses,
                   strReturned, sent, streamToken, decPc, decS, ch, chCloses, itP, out,
                   outCloses, received, crashed, readAfterClose>>

\* "wg.Wait(); res.Body.Close()"
BodyCloser ==
    /\ closerPc = "waiting"
    /\ ~crashed
    /\ wg = 0
    /\ closerPc' = "closed"
    /\ bodyCloses' = bodyCloses + 1
    /\ UNCHANGED <<cmdVars, header, errVar, mainPc, iterRet, hasBody, wg, strReturned, sent, streamToken,
                   decPc, decS, ch, chCloses, itPc, itP, out, outCloses, received,
                   crashed, readAfterClose>>

\* one turn of "for dec.More()" up to the send, or the end of the goroutine
\* with its deferred close(ch) and wg.Done()
DecodeStep ==
    /\ decPc = "loop"
    /\ ~crashed
    /\ readAfterClose' = (readAfterClose \/ bodyCloses > 0)
    /\ \E e \in NextElems(sent) :
          LET stop(read, tok, err) ==
                  /\ sent' = read
                  /\ streamToken' = tok
                  /\ errVar' = err
                  /\ decPc' = "done"
                  /\ chCloses' = chCloses + 1
                  /\ wg' = DecoderDone(wg)
                  /\ UNCHANGED decS
              hold(read, tok, s) ==
                  /\ sent' = read
                  /\ streamToken' = tok
                  /\ errVar' = NoErr
                  /\ decPc' = "send"
                  /\ decS' = s
                  /\ UNCHANGED <<chCloses, wg>>
          IN  IF e.kind \in {"close", "eof"}          \* dec.More() is false
              THEN stop(Append(sent, e), streamToken, errVar)
              ELSE IF DecodeFails(e)
              THEN stop(Append(sent, e), streamToken, DecodeErr(e))
              ELSE IF ~EmptyResult(e)
              THEN hold(Append(sent, e), streamToken, [Error |-> <<>>, Result |-> e.result])
              ELSE \E e2 \in NextElems(Append(sent, e)) :
                      IF DecodeFails(e2)
                      THEN stop(sent \o <<e, e2>>, streamToken, DecodeErr(e2))
                      ELSE IF DecodeToken(streamToken, e2) = "end"
                      THEN stop(sent \o <<e, e2>>, DecodeToken(streamToken, e2), NoErr)
                      ELSE hold(sent \o <<e, e2>>, DecodeToken(streamToken, e2),
                                [Error |-> <<>>, Result |-> e.result])
    /\ UNCHANGED <<cmdVars, header, mainPc, iterRet, hasBody, closerPc, bodyCloses,
                   strReturned, ch, itPc, itP, out, outCloses, received, crashed>>

\* "ch <- s"
DecodeSend ==
    /\ decPc = "send"
    /\ ~crashed
    /\ ChanHasRoom(ch)
    /\ ch' = Append(ch, decS)
    /\ decPc' = "loop"
    /\ UNCHANGED <<cmdVars, header, errVar, mainPc, iterRet, hasBody, wg, closerPc, bodyCloses,
                   strReturned, sent, streamToken, decS, chCloses, itPc, itP, out,
                   outCloses, received, crashed, readAfterClose>>

\* "for m := range ch": take one reply and unmarshal it; panic when that
\* fails; leave the loop and close(out) when ch is closed and empty
IterRecv ==
    /\ itPc = "recv"
    /\ ~crashed
    /\ \/ /\ ch # <<>>
          /\ ch' = Tail(ch)
          /\ LET r == UnmarshalPath(Head(ch).Result)
             IN  IF r.err # NoErr
                 THEN crashed' = TRUE /\ itPc' = "panic" /\ UNCHANGED itP
                 ELSE itP' = r.path /\ itPc' = "send" /\ UNCHANGED crashed
          /\ UNCHANGED outCloses
       \/ /\ ch = <<>>
          /\ chCloses > 0
          /\ itPc' = "done"
          /\ outCloses' = outCloses + 1
          /\ UNCHANGED <<ch, itP, crashed>>
    /\ UNCHANGED <<cmdVars, header, errVar, mainPc, iterRet, hasBody, wg, closerPc, bodyCloses,
                   strReturned, sent, streamToken, decPc, decS, chCloses, out,
                   received, readAfterClose>>

\* mutation: a send that does not block; the path is dropped when out is full
IterSend_Drop ==
    /\ itPc = "send"
    /\ ~crashed
    /\ out' = IF Len(out) < OutCap THEN Append(out, itP) ELSE out
    /\ itPc' = "recv"
    /\ UNCHANGED <<cmdVars, header, errVar, mainPc, iterRet, hasBody, wg, closerPc, bodyCloses,
                   strReturned, sent, streamToken, decPc, decS, ch, chCloses, itP,
                   outCloses, received, crashed, readAfterClose>>

\* "out <- p"
IterSend ==
    /\ itPc = "send"
    /\ ~crashed
    /\ Len(out) < OutCap
    /\ out' = Append(out, itP)
    /\ itPc' = "recv"
    /\ UNCHANGED <<cmdVars, header, errVar, mainPc, iterRet, hasBody, wg, closerPc, bodyCloses,
                   strReturned, sent, streamToken, decPc, decS, ch, chCloses, itP,
                   outCloses, received, crashed, readAfterClose>>

\* the consumer, "for path := range ch" of the caller: one receive
ConsumerRecv ==
    /\ mainPc = "consume"
    /\ ~crashed
    /\ \/ /\ out # <<>>
          /\ received' = Append(received, Head(out))
          /\ out' = Tail(out)
          /\ UNCHANGED mainPc
       \/ /\ out = <<>>
          /\ outCloses > 0
          /\ mainPc' = "done"
          /\ UNCHANGED <<received, out>>
    /\ UNCHANGED <<cmdVars, header, errVar, iterRet, hasBody, wg, closerPc, bodyCloses, strReturned,
                   sent, streamToken, decPc, decS, ch, chCloses, itPc, itP, outCloses,
                   crashed, readAfterClose>>

\* the consumer stops receiving before the sequence is closed, after it has
\* received at most MaxShort paths
ConsumerAbandon ==
    /\ mainPc = "consume"
    /\ Len(received) <= MaxShort
    /\ ~crashed
    /\ mainPc' = "abandoned"
    /\ UNCHANGED <<cmdVars, header, errVar, iterRet, hasBody, wg, closerPc, bodyCloses, strReturned,
                   sent, streamToken, decPc, decS, ch, chCloses, itPc, itP, out,
                   outCloses, received, crashed, readAfterClose>>

StreamNext ==
    \/ \E i \in ConnRefs, net \in StreamAnswers, b \in BOOLEAN,
          e1 \in HeaderElems, e2 \in VersionElems : IterCall(i, net, b, e1, e2)
    \/ StreamReturn
    \/ IterReturn
    \/ BodyCloser
    \/ DecodeStep
    \/ DecodeSend
    \/ IterRecv
    \/ IterSend
    \/ ConsumerRecv
    \/ ConsumerAbandon

\* r := irmin.Create(uri, owner), possibly r.FromTree(t), before r.Iter()
StreamInit ==
    /\ \E t \in TreeNames : conns = <<[Create(BaseUri, <<"o">>) EXCEPT !.tree = t]>>
    /\ call = NoCall
    /\ StreamIdle

StreamSpec == StreamInit /\ [][StreamNext]_vars


\* The Go scheduler runs every goroutine that can take a step, and the calling
\* thread goes on to its next statement; the consumer receives while it has
\* not abandoned the sequence.
StreamFairness ==
    /\ WF_vars(StreamReturn)
    /\ WF_vars(IterReturn)
    /\ WF_vars(BodyCloser)
    /\ WF_vars(DecodeStep)
    /\ WF_vars(DecodeSend)
    /\ WF_vars(IterRecv)
    /\ WF_vars(IterSend)
    /\ WF_vars(ConsumerRecv)

FairStreamSpec == StreamSpec /\ StreamFairness


\* ------------------------------------------------------------------------
\* Properties of the stream executor
\* ------------------------------------------------------------------------
IsObjFrame(e) == e.kind = "obj" /\ e.result # NoPayload

\* the paths of the frames among the elements s, in order
RECURSIVE FramePaths(_)
FramePaths(s) ==
    IF s = <<>> THEN <<>>
    ELSE (IF IsObjFrame(Head(s)) THEN <<Head(s).result.id>> ELSE <<>>)
         \o FramePaths(Tail(s))

IsPrefix(a, b) == Len(a) <= Len(b) /\ a = SubSeq(b, 1, Len(a))

\* start token and version token were read, then frames with path payloads,
\* the end token and the closing bracket
WellFormed(h, s) ==
    /\ Len(h) = 2 /\ h[1] = StartTok /\ h[2] = PlainObj
    /\ Len(s) >= 2
    /\ s[Len(s) - 1] = EndTok
    /\ s[Len(s)] = CloseBracket
    /\ \A j \in 1..(Len(s) - 2) : IsObjFrame(s[j]) /\ s[j].result.isPath

\* frames, then the body is exhausted or undecodable; no end token
AbruptEnd(s) ==
    /\ Len(s) >= 2
    /\ s[Len(s)] \in {Garbage, EndOfBody}
    /\ \A j \in 1..(Len(s) - 1) : IsObjFrame(s[j]) /\ s[j].result.isPath

\* C1: once a response has been obtained its body is closed at most once,
\* only after runStreamCommand has returned and the decode loop, if it was
\* started, has ended, and the decoder never reads the body after the close.
BodyClosedOnceAfterReaders ==
    /\ bodyCloses <= 1
    /\ bodyCloses >= 1 => (hasBody /\ strReturned /\ decPc \in {"none", "done"})
    /\ ~readAfterClose

\* the body was closed after a decode loop that delivered frames
BodyClosedAfterDecodeLoop ==
    /\ bodyCloses = 1 /\ decPc = "done" /\ Len(sent) > 2 /\ strReturned

\* no goroutine and no caller can take a step
Quiescent == ~ENABLED StreamNext

\* C2: when the consumer has stopped receiving before the end of the
\* sequence, the body is closed in the end: once nothing can run any more,
\* the body has been closed, whatever the number of frames in the body.
AbandonedStreamReleasesBody ==
    (mainPc = "abandoned" /\ hasBody /\ ~crashed /\ Quiescent) => bodyCloses > 0

\* C3: for a well-formed response a consumer that receives until the sequence
\* closes gets exactly the frames' paths in the order of the body: what it
\* has received is at every moment a prefix of them, it has all of them when
\* it sees the sequence closed, and it does see it closed.
IterDeliversFramesInOrder ==
    /\ [](~HasOdd(sent) => IsPrefix(received, FramePaths(sent)))
    /\ []((mainPc = "done" /\ WellFormed(header, sent)) => received = FramePaths(sent))
    /\ (WellFormed(header, sent) /\ mainPc = "consume") ~> (mainPc \in {"done", "abandoned"})

\* a consumer has received two or more frames of a well-formed response and
\* has seen the sequence closed
WellFormedStreamConsumed ==
    mainPc = "done" /\ WellFormed(header, sent) /\ Len(received) >= 2

\* what the consumer of the sequence can look at when it is closed: that it
\* is closed, and the error Iter returned with it
ConsumerView == [closed |-> mainPc = "done", err |-> iterRet.err]
NormalEndView == [closed |-> TRUE, err |-> NoErr]

\* C4: when the response ends without the end token after some frames, the
\* consumer sees a final state that differs from the one of a normal end.
AbruptEndObservable ==
    (mainPc = "done" /\ AbruptEnd(sent)) => ConsumerView # NormalEndView

\* C5: when the first element after the opening bracket is missing,
\* undecodable or not a start token, Iter returns a non-nil error and no
\* sequence, and no frame is emitted.
BadStartTokenIsError ==
    (mainPc = "noSeq" /\ hasBody /\ Len(header) = 1) =>
        /\ iterRet.err # NoErr
        /\ ~iterRet.seq
        /\ ch = <<>> /\ out = <<>> /\ received = <<>>


\* ------------------------------------------------------------------------
\* Properties of the request executor and the operations
\* ------------------------------------------------------------------------
GetOps == {"AvailableCommands", "Version", "List", "Mem", "Read", "Clone"}
PostOps == {"Update", "Remove", "RemoveRec", "CompareAndSet"}
RequestOps == GetOps \cup PostOps

\* the last call was an operation whose URL was built, so that its request
\* went to the transport
RequestSent ==
    /\ call.op \in RequestOps
    /\ MakeCallUrl(conns[call.conn], call.ct, call.command, call.path).err = NoErr

\* the request was answered with a body that decoded into the envelope
RequestExecuted == RequestSent /\ call.net.kind = "reply"

\* C6: when the transport call fails, the operation returns that transport
\* error, with a body (POST) as well as without one (GET).
TransportErrorReturned ==
    (RequestSent /\ call.net.kind = "transport_error") =>
        /\ call.out.status = "returned"
        /\ call.out.err = Err("transport", call.net.terr)

\* C7: when the request executes and the envelope's error field is not
\* empty, the operation fails and the message of the failure is exactly the
\* envelope's error string.
RemoteErrorMessageExact ==
    (RequestExecuted /\ call.net.data.Error # <<>>) =>
        /\ call.out.status = "returned"
        /\ call.out.err # NoErr
        /\ call.out.err.msg = call.net.data.Error

\* C8: MakeCallUrl(COMMAND_TREE, "read", P) on a connection with tree "foo"
\* succeeds with the base endpoint followed by /tree/foo/read and P's suffix.
TreeReadUrlOfFoo ==
    (/\ call.op = "MakeCallUrl"
     /\ call.ct = COMMAND_TREE
     /\ call.command = <<"read">>
     /\ Tree(conns[call.conn]) = Foo) =>
        /\ call.out.err = NoErr
        /\ UrlString(call.out.val) =
               BaseHost \o <<"/", "tree", "/">> \o Foo \o <<"/", "read">>
                        \o PathURL(call.path)

\* C9: on a connection without a tree selector MakeCallUrl gives for
\* COMMAND_TREE what it gives for COMMAND_PLAIN, for every command and path:
\* the same URL, without a tree segment, or the same failure.
TreeWithoutSelectorIsPlain ==
    (/\ call.op = "MakeCallUrl"
     /\ call.ct = COMMAND_TREE
     /\ Tree(conns[call.conn]) = <<>>) =>
        LET plain == MakeCallUrl(conns[call.conn], COMMAND_PLAIN, call.command, call.path)
        IN  /\ call.out.err = plain.err
            /\ call.out.val = plain.url
            /\ call.out.err = NoErr =>
                   UrlString(call.out.val) =
                       BaseHost \o <<"/">> \o QueryEscape(call.command) \o PathURL(call.path)

\* a URL was built for COMMAND_TREE, a command with a reserved character and
\* a path of two segments on a connection without a tree selector
TreeUrlBuiltWithoutSelector ==
    /\ call.op = "MakeCallUrl"
    /\ call.ct = COMMAND_TREE
    /\ Tree(conns[call.conn]) = <<>>
    /\ call.command = <<"o", "%">>
    /\ Len(call.path) = 2
    /\ call.out.err = NoErr

\* C10: Clone succeeds, with and without force, when the request executes
\* and the reply has an empty error and the result "ok".
CloneOkSucceeds ==
    (/\ RequestExecuted
     /\ call.op = "Clone"
     /\ call.net.data.Error = <<>>
     /\ call.net.data.Result = <<"o", "k">>) =>
        /\ call.out.status = "returned"
        /\ call.out.err = NoErr

\* C11: Clone, when the request executes and the reply has an empty error and
\* an empty result, succeeds with force and fails without force.
CloneEmptyResultByForce ==
    (/\ RequestExecuted
     /\ call.op = "Clone"
     /\ call.net.data.Error = <<>>
     /\ call.net.data.Result = <<>>) =>
        /\ call.out.status = "returned"
        /\ call.force => call.out.err = NoErr
        /\ ~call.force => call.out.err # NoErr

\* C12: Remove and RemoveRec succeed when the request executes and the reply
\* has an empty error; the reply's result, one string of any length, is one
\* result and does not make them fail.
RemoveSingleResultSucceeds ==
    (/\ RequestExecuted
     /\ call.op \in {"Remove", "RemoveRec"}
     /\ call.net.data.Error = <<>>) =>
        /\ call.out.status = "returned"
        /\ call.out.err = NoErr

\* the messages of Read's two failures
NoSuchKey(path) == <<"invalid key ">> \o PathString(path)
AmbiguousRead(path) == <<"read ">> \o PathString(path)
                           \o <<" returned more than one result">>

\* C13: Read, when the request executes and the envelope's error is empty,
\* fails with the no-such-key error for no entry, fails with the ambiguous-read
\* error for more than one entry, and returns the entry's bytes for one entry;
\* exactly one of the three outcomes happens.
ReadThreeOutcomes ==
    (/\ RequestExecuted
     /\ call.op = "Read"
     /\ call.net.data.Error = <<>>) =>
        LET n == Len(call.net.data.Result)
            noKey == call.out.err # NoErr /\ call.out.err.msg = NoSuchKey(call.path)
            ambiguous == call.out.err # NoErr
                         /\ call.out.err.msg = AmbiguousRead(call.path)
            one == call.out.err = NoErr /\ call.out.val = call.net.data.Result[1]
        IN  /\ call.out.status = "returned"
            /\ n = 0 => noKey /\ ~ambiguous /\ call.out.err # NoErr
            /\ n > 1 => ambiguous /\ ~noKey /\ call.out.err # NoErr
            /\ n = 1 => one
            /\ call.out.err = NoErr => n = 1

\* Read was answered with two entries and failed as ambiguous
ReadOfTwoEntriesFailed ==
    /\ RequestExecuted
    /\ call.op = "Read"
    /\ call.net.data.Error = <<>>
    /\ Len(call.net.data.Result) = 2
    /\ call.path # <<>>
    /\ call.out.err # NoErr

\* C14: Update and CompareAndSet, when the request executes and the
\* envelope's error is empty, fail for an empty result and otherwise succeed
\* with the reply's result as the hash; success never comes with an empty hash.
HashRequiredForSuccess ==
    (/\ RequestExecuted
     /\ call.op \in {"Update", "CompareAndSet"}
     /\ call.net.data.Error = <<>>) =>
        /\ call.out.status = "returned"
        /\ call.net.data.Result = <<>> => call.out.err # NoErr
        /\ call.net.data.Result # <<>> =>
               call.out.err = NoErr /\ call.out.val = call.net.data.Result
        /\ call.out.err = NoErr => call.out.val # <<>>

\* Update was answered with neither an error nor a hash, and failed
UpdateWithoutHashFailed ==
    /\ RequestExecuted
    /\ call.op = "Update"
    /\ call.net.data.Error = <<>>
    /\ call.net.data.Result = <<>>
    /\ call.out.err # NoErr

\* C15: changing the task owner never modifies a Connection value that
\* another operation may be using: no step changes the task owner of a
\* connection that exists, so that every Task made by NewTask on a connection
\* carries the owner that connection was made with.
OwnerChangeLeavesConnections ==
    [][/\ \A i \in 1..Len(conns) : TaskOwner(conns'[i]) = TaskOwner(conns[i])
       /\ call'.op = "NewTask" =>
              call'.out.val.Owner = TaskOwner(conns[call'.conn])]_vars

UndecodablePayloadSurfaced ==
    (\E j \in 1..Len(sent) : IsObjFrame(sent[j]) /\ ~sent[j].result.isPath) =>
        ~crashed

\* the replies the decode loop holds now or has put into the channel
PublishedNow == ch \o (IF decPc = "send" THEN <<decS>> ELSE <<>>)

\* C18: an element with an empty result is looked at as a control token and
\* the sequence stops with it: it is never published as a frame, and no
\* element after it is consumed.
EmptyResultEndsSequence ==
    /\ \A j \in 1..Len(PublishedNow) : PublishedNow[j].Result # NoPayload
    /\ \A j \in 1..Len(sent) :
           EmptyResult(sent[j]) => \A k \in (j + 1)..Len(sent) : sent[k].kind # "obj"

\* element j of s was read by the second Decode of a turn, as a control
\* token: the element before it has an empty result and was not itself read
\* as a control token
RECURSIVE ReadAsToken(_, _)
ReadAsToken(s, j) == j > 1 /\ EmptyResult(s[j - 1]) /\ ~ReadAsToken(s, j - 1)

\* the number of replies the decode loop has held for sending after reading
\* the elements s: an element with a result, and an element without one when
\* the element after it decodes and does not say "end"
HeldFrames(s) ==
    Cardinality({j \in 1..Len(s) :
        /\ ~ReadAsToken(s, j)
        /\ ~DecodeFails(s[j])
        /\ EmptyResult(s[j]) =>
               (j < Len(s) /\ ~DecodeFails(s[j + 1]) /\ s[j + 1].stream # "end")})

\* the number of replies the consumer of runStreamCommand's channel, the
\* goroutine of Iter, has received
TakenFrames == Len(received) + Len(out) + (IF itPc \in {"send", "panic"} THEN 1 ELSE 0)

\* C19: the frames decoded from the body and not yet received from the
\* channel are those in the channel and the one the decoder holds, at most
\* ChanCap + 1; while the channel is full and the decoder holds a frame,
\* nothing more is read from the body.
StreamBackpressured ==
    /\ [](/\ HeldFrames(sent) - TakenFrames = Len(PublishedNow)
          /\ HeldFrames(sent) - TakenFrames <= ChanCap + 1
          /\ Len(ch) <= ChanCap)
    /\ [][(Len(ch) = ChanCap /\ decPc = "send") => sent' = sent]_vars

\* the channel is full and the decoder holds one more frame
DecoderBlockedOnFullChannel ==
    /\ Len(ch) = ChanCap
    /\ decPc = "send"
    /\ HeldFrames(sent) - TakenFrames = ChanCap + 1

\* C20: while the consumer keeps receiving, for every body the decode loop
\* ends, the sequence is closed once and nothing is sent after the close, and
\* the body is closed in the end.
DecodeLoopTerminates ==
    /\ [](chCloses <= 1 /\ (chCloses = 1 => decPc = "done"))
    /\ [][chCloses = 1 => Len(ch') <= Len(ch)]_vars
    /\ (decPc = "loop") ~>
           \/ (decPc = "done" /\ chCloses = 1 /\ bodyCloses = 1)
           \/ crashed
           \/ mainPc = "abandoned"

\* a body that ended with an undecodable element after frames: the loop has
\* ended, the sequence and the body are closed, the consumer saw the end
UndecodableBodyClosed ==
    /\ decPc = "done" /\ chCloses = 1 /\ bodyCloses = 1
    /\ mainPc = "done"
    /\ Len(received) >= 2
    /\ sent[Len(sent)] = Garbage

====
